---- MODULE Spec2Model ----
(***************************************************************************)
(* A model of lockfree::shared_ptr (src/lib/shared_ptr.hpp, the definition *)
(* that starts at line 276): the control block with its two atomic         *)
(* counters and the handle type with its constructors, assignments, reset  *)
(* and swap.                                                               *)
(*                                                                         *)
(* Spec    : one thread calls the public handle operations; every action   *)
(*           is one whole member function.                                 *)
(* SpecMT  : several threads, each using its own handles; every action is  *)
(*           one atomic operation of increment_use_count /                 *)
(*           decrement_use_count.                                          *)
(***************************************************************************)
EXTENDS Integers, Sequences, FiniteSets, TLC

\* ---------------------------------------------------------------- bounds
NumHandles == 2        \* named handle variables of the single-threaded client
NumObjs == 2           \* heap objects the client allocates
NumThreads == 2        \* threads of the concurrent client
NumSlots == 2          \* handle variables of each thread
MaxAccess == 1         \* accesses each thread makes to the shared object

Null == 0
Temp == 0              \* the local `shared_ptr temp` of operator= and reset(p)
HandleIds == 0..NumHandles
UserHandles == 1..NumHandles
Objs == 1..NumObjs
Ptrs == 0..NumObjs
BlockIds == 1..NumObjs   \* every control block is allocated for one object
Threads == 1..NumThreads
Slots == 1..NumSlots
ThreadHandles == Threads \X Slots
Deleters == {"default", "custom"}

VARIABLES
  handles,       \* handle id -> [live, ptr_, ctrl_]
  blocks,        \* control block id -> its fields and what has happened to it
  objects,       \* object id -> its allocation state and the deleters run on it
  assertFailed,  \* an assert of decrement_use_count has failed
  last,          \* the last operation, the state before it, what destroy() saw
  pc,            \* thread -> where it is inside a member function
  reg,           \* thread -> the locals of the member function it is in
  clock,         \* thread -> how many accesses to the object it has made
  view,          \* thread -> per thread, the accesses that happen before its next step
  rel,           \* block -> the accesses released into use_count's release sequence
  mtlog          \* block -> who observed use_count 1 -> 0, who ran destroy()

seqvars == <<handles, blocks, objects, assertFailed, last>>
mtvars == <<pc, reg, clock, view, rel, mtlog>>
vars == <<handles, blocks, objects, assertFailed, last, pc, reg, clock, view, rel, mtlog>>

\* ------------------------------------------------------------ the heap
NoHandle == [live |-> FALSE, ptr_ |-> Null, ctrl_ |-> Null]

NoBlock == [st |-> "unalloc", use_count |-> 0, weak_count |-> 0, ptr_ |-> Null,
            deleter_ |-> "default", destroys |-> 0, frees |-> 0]

RawObject == [st |-> "raw", deleted_default |-> 0, deleted_custom |-> 0]

\* The state the member functions work on, as one record.
World == [h |-> handles, b |-> blocks, o |-> objects, af |-> assertFailed,
          seen |-> <<>>, threw |-> FALSE]

\* ------------------------------------------------------- control_block
\* control_block(): use_count(1), weak_count(1), and control_block_with_ptr's
\* ptr_(ptr), deleter_(deleter).
control_block_with_ptr(p, d) ==
  [st |-> "live", use_count |-> 1, weak_count |-> 1, ptr_ |-> p,
   deleter_ |-> d, destroys |-> 0, frees |-> 0]

RunDeleter_default(o, p, d) ==
  IF p = Null THEN o
  ELSE [o EXCEPT ![p] = [st |-> "deleted",
                         deleted_default |-> @.deleted_default + 1,
                         deleted_custom |-> @.deleted_custom]]

\* DefaultDeleter / the caller's deleter applied to the object.
RunDeleter(o, p, d) ==
  IF p = Null THEN o
  ELSE [o EXCEPT ![p] = [st |-> "deleted",
                         deleted_default |-> @.deleted_default + (IF d = "default" THEN 1 ELSE 0),
                         deleted_custom |-> @.deleted_custom + (IF d = "custom" THEN 1 ELSE 0)]]

destroy_skip(w, c, by) == w

\* destroy(): deleter_(ptr_); ptr_ = nullptr.  The deleter is the caller's
\* code: what it can observe of the handles is recorded in seen.
destroy(w, c, by) ==
  [w EXCEPT !.o = RunDeleter(w.o, w.b[c].ptr_, w.b[c].deleter_),
            !.b[c].ptr_ = Null,
            !.b[c].destroys = @ + 1,
            !.seen = Append(@, [cb |-> c, by |-> by, h |-> w.h])]

increment_use_count_skip(w, c) == w

increment_use_count(w, c) ==
  LET old == w.b[c].use_count
      w1 == [w EXCEPT !.b[c].use_count = @ + 1]
  IN IF old = 0 THEN [w1 EXCEPT !.b[c].weak_count = @ + 1] ELSE w1

decrement_use_count_early(w, c, by) ==
  LET old_use_count == w.b[c].use_count
      w1 == [w EXCEPT !.b[c].use_count = @ - 1]
  IN IF old_use_count <= 2 THEN destroy(w1, c, by) ELSE w1

decrement_use_count_leak(w, c, by) ==
  LET old_use_count == w.b[c].use_count
      w1 == [w EXCEPT !.b[c].use_count = @ - 1,
                      !.af = @ \/ ~(old_use_count > 0)]
  IN IF old_use_count = 1 THEN destroy(w1, c, by) ELSE w1

decrement_use_count(w, c, by) ==
  LET old_use_count == w.b[c].use_count
      w1 == [w EXCEPT !.b[c].use_count = @ - 1,
                      !.af = @ \/ ~(old_use_count > 0)]
  IN IF old_use_count = 1
       THEN LET w2 == destroy(w1, c, by)
                old_weak_count == w2.b[c].weak_count
                w3 == [w2 EXCEPT !.b[c].weak_count = @ - 1,
                                 !.af = @ \/ ~(old_weak_count > 0)]
            IN IF old_weak_count = 1
                 THEN [w3 EXCEPT !.b[c].st = "freed", !.b[c].frees = @ + 1]
                 ELSE w3
       ELSE w1

\* ---------------------------------------------------------- shared_ptr
use_count(w, h) ==
  IF w.h[h].ctrl_ # Null THEN w.b[w.h[h].ctrl_].use_count ELSE 0

get(w, h) == w.h[h].ptr_

operator_bool(w, h) == w.h[h].ptr_ # Null

clear(w, h) == [w EXCEPT !.h[h].ptr_ = Null, !.h[h].ctrl_ = Null]

\* A constructor starts on storage that is no handle yet.
Begin(w, h) == [w EXCEPT !.h[h] = [live |-> TRUE, ptr_ |-> Null, ctrl_ |-> Null]]

FreshBlock(w) == CHOOSE c \in BlockIds :
                   /\ w.b[c].st = "unalloc"
                   /\ \A c2 \in BlockIds : w.b[c2].st = "unalloc" => c <= c2

ctor_default(w, h) == Begin(w, h)

ctor_ptr_null_block(w, h, p, d, oom) ==
  IF oom
    THEN [w EXCEPT !.threw = TRUE]
    ELSE LET c == FreshBlock(w)
         IN [Begin(w, h) EXCEPT !.h[h].ptr_ = p, !.h[h].ctrl_ = c,
                                !.b[c] = control_block_with_ptr(p, d)]

\* shared_ptr(Y *ptr, Deleter d).  oom: `new control_block_with_ptr` throws
\* std::bad_alloc; the handle under construction never comes to exist.
ctor_ptr(w, h, p, d, oom) ==
  IF p = Null
    THEN clear(Begin(w, h), h)
    ELSE IF oom
      THEN [w EXCEPT !.threw = TRUE]
      ELSE LET c == FreshBlock(w)
           IN [Begin(w, h) EXCEPT !.h[h].ptr_ = p, !.h[h].ctrl_ = c,
                                  !.b[c] = control_block_with_ptr(p, d),
                                  !.o[p].st = "owned"]

ctor_unique_nocatch(w, h, p, d, oom) ==
  IF p = Null THEN ctor_ptr(w, h, p, d, oom)
  ELSE ctor_ptr([w EXCEPT !.o[p].st = "raw"], h, p, d, oom)

\* shared_ptr(unique_ptr<Y, Deleter> &&r): auto y = r.release(); then
\* shared_ptr(y, r.get_deleter()) is constructed in place; if that throws,
\* r.reset(y) gives the object back to r before the exception goes on.
\* p is what r holds (an object in state "unique" is owned by r).
ctor_unique(w, h, p, d, oom) ==
  LET released == IF p = Null THEN w ELSE [w EXCEPT !.o[p].st = "raw"]
      w1 == ctor_ptr(released, h, p, d, oom)
  IN IF w1.threw /\ p # Null
       THEN [w1 EXCEPT !.o[p].st = "unique"]
       ELSE w1

copy_ctor_nocount(w, h, r) ==
  IF w.h[r].ctrl_ = Null
    THEN clear(Begin(w, h), h)
    ELSE [Begin(w, h) EXCEPT !.h[h].ctrl_ = w.h[r].ctrl_, !.h[h].ptr_ = w.h[r].ptr_]

copy_ctor(w, h, r) ==
  IF w.h[r].ctrl_ = Null
    THEN clear(Begin(w, h), h)
    ELSE LET w1 == increment_use_count(Begin(w, h), w.h[r].ctrl_)
         IN [w1 EXCEPT !.h[h].ctrl_ = w.h[r].ctrl_, !.h[h].ptr_ = w.h[r].ptr_]

\* static_cast<T *>(r.ptr_) of a pointer to a derived object: the same object.
conv_copy_ctor(w, h, r) ==
  IF w.h[r].ctrl_ = Null
    THEN clear(Begin(w, h), h)
    ELSE LET t == w.h[r].ptr_
             w1 == increment_use_count(Begin(w, h), w.h[r].ctrl_)
         IN [w1 EXCEPT !.h[h].ptr_ = t, !.h[h].ctrl_ = w.h[r].ctrl_]

move_ctor_keep(w, h, r) ==
  [Begin(w, h) EXCEPT !.h[h].ctrl_ = w.h[r].ctrl_, !.h[h].ptr_ = w.h[r].ptr_]

move_ctor(w, h, r) ==
  LET w1 == clear(Begin(w, h), h)
  IN [w1 EXCEPT !.h[h].ctrl_ = w1.h[r].ctrl_, !.h[r].ctrl_ = w1.h[h].ctrl_,
                !.h[h].ptr_ = w1.h[r].ptr_, !.h[r].ptr_ = w1.h[h].ptr_]

conv_move_ctor(w, h, r) ==
  IF w.h[r].ctrl_ = Null
    THEN clear(Begin(w, h), h)
    ELSE [Begin(w, h) EXCEPT !.h[h].ptr_ = w.h[r].ptr_, !.h[r].ptr_ = Null,
                             !.h[h].ctrl_ = w.h[r].ctrl_, !.h[r].ctrl_ = Null]

alias_ctor_nocount(w, h, r, p) ==
  [Begin(w, h) EXCEPT !.h[h].ctrl_ = w.h[r].ctrl_, !.h[h].ptr_ = p]

\* shared_ptr(const shared_ptr<Y> &r, T *ptr) : shared_ptr(r) { ptr_ = ptr; }
alias_ctor(w, h, r, p) ==
  [copy_ctor(w, h, r) EXCEPT !.h[h].ptr_ = p]

\* shared_ptr(shared_ptr<Y> &&r, T *ptr) : shared_ptr(r): r is an lvalue in
\* the mem-initializer, so this delegates to the copy constructor as well.
alias_move_ctor(w, h, r, p) ==
  [copy_ctor(w, h, r) EXCEPT !.h[h].ptr_ = p]

reset_keep(w, h) ==
  IF w.h[h].ctrl_ # Null
    THEN decrement_use_count(w, w.h[h].ctrl_, h)
    ELSE w

reset(w, h) ==
  LET w1 == IF w.h[h].ctrl_ # Null
              THEN decrement_use_count(w, w.h[h].ctrl_, h)
              ELSE w
  IN clear(w1, h)

\* ~shared_ptr() { reset(); } and the end of the object's lifetime.
dtor(w, h) == [reset(w, h) EXCEPT !.h[h] = NoHandle]

swap_ptr_only(w, h, r) ==
  [w EXCEPT !.h[h].ptr_ = w.h[r].ptr_, !.h[r].ptr_ = w.h[h].ptr_]

swap(w, h, r) ==
  [w EXCEPT !.h[h].ptr_ = w.h[r].ptr_, !.h[r].ptr_ = w.h[h].ptr_,
            !.h[h].ctrl_ = w.h[r].ctrl_, !.h[r].ctrl_ = w.h[h].ctrl_]

\* operator=(const shared_ptr &r): shared_ptr temp{r}; temp.swap(*this);
\* temp is destroyed at the closing brace.
copy_assign(w, h, r) == dtor(swap(copy_ctor(w, Temp, r), Temp, h), Temp)

\* operator=(shared_ptr &&r): the same statements; r names an lvalue, so
\* temp{r} is the copy constructor.
move_assign(w, h, r) == dtor(swap(copy_ctor(w, Temp, r), Temp, h), Temp)

reset_ptr_release_first(w, h, p, d, oom) ==
  LET w1 == reset(w, h)
      w2 == ctor_ptr(w1, Temp, p, d, oom)
  IN IF w2.threw THEN w2
     ELSE [w2 EXCEPT !.h[h] = [w2.h[Temp] EXCEPT !.live = TRUE],
                     !.h[Temp] = NoHandle]

\* reset(Y *ptr, Deleter d): shared_ptr temp{ptr, std::move(d)};
\* temp.swap(*this); temp is destroyed at the closing brace.  If temp's
\* constructor throws, the swap is never reached.
reset_ptr(w, h, p, d, oom) ==
  LET w1 == ctor_ptr(w, Temp, p, d, oom)
  IN IF w1.threw THEN w1 ELSE dtor(swap(w1, Temp, h), Temp)

\* ------------------------------------------------- the client's calls
NoOp == [op |-> "none", h |-> 0, r |-> 0, p |-> 0, d |-> "default", ok |-> TRUE,
         pre |-> [h |-> [i \in HandleIds |-> NoHandle],
                  b |-> [c \in BlockIds |-> NoBlock],
                  o |-> [x \in Objs |-> RawObject]],
         seen |-> <<>>]

NoReg == [h |-> 0, r |-> 0, old |-> 0]
NoView == [u \in Threads |-> 0]
NoLog == [zero |-> <<>>, ran |-> <<>>]

MTIdle ==
  /\ pc = [t \in Threads |-> "unstarted"]
  /\ reg = [t \in Threads |-> NoReg]
  /\ clock = NoView
  /\ view = [t \in Threads |-> NoView]
  /\ rel = [c \in BlockIds |-> NoView]
  /\ mtlog = [c \in BlockIds |-> NoLog]

Init ==
  /\ MTIdle
  /\ handles = [i \in HandleIds |-> NoHandle]
  /\ blocks = [c \in BlockIds |-> NoBlock]
  /\ objects = [x \in Objs |-> RawObject]
  /\ assertFailed = FALSE
  /\ last = NoOp

\* The call returned or threw: the state is what the member function left.
Return(op, h, r, p, d, w) ==
  /\ UNCHANGED mtvars
  /\ handles' = w.h
  /\ blocks' = w.b
  /\ objects' = w.o
  /\ assertFailed' = w.af
  /\ last' = [op |-> op, h |-> h, r |-> r, p |-> p, d |-> d, ok |-> ~w.threw,
              pre |-> [h |-> handles, b |-> blocks, o |-> objects],
              seen |-> w.seen]

\* The client makes its next call once it has looked at the result of the
\* one before (last is the call it is looking at).
Ready == last.op = "none"
Dead(h) == Ready /\ ~handles[h].live
Live(h) == Ready /\ handles[h].live

\* A pointer the client may hand over: null, or the object its next `new T`
\* returns (objects are numbered in the order they are allocated).
Adoptable(p) ==
  IF p = Null THEN TRUE
  ELSE /\ objects[p].st = "raw"
       /\ \A q \in Objs : q < p => objects[q].st # "raw"

\* A pointer value the client can name: null or the address of an object it
\* has allocated.
Known(p) == IF p = Null THEN TRUE ELSE objects[p].st # "raw"

CtorDefault ==
  \E h \in UserHandles :
    /\ Dead(h)
    /\ Return("CtorDefault", h, 0, 0, "default", ctor_default(World, h))

CtorPtr ==
  \E h \in UserHandles, p \in Ptrs, d \in Deleters, oom \in BOOLEAN :
    /\ Dead(h) /\ Adoptable(p)
    /\ p = Null => ~oom
    /\ Return("CtorPtr", h, 0, p, d, ctor_ptr(World, h, p, d, oom))

\* The unique_ptr handed over is null or was just made from `new T`.
CtorUnique ==
  \E h \in UserHandles, p \in Ptrs, d \in Deleters, oom \in BOOLEAN :
    /\ Dead(h) /\ Adoptable(p)
    /\ p = Null => ~oom
    /\ Return("CtorUnique", h, 0, p, d,
              ctor_unique(IF p = Null THEN World
                          ELSE [World EXCEPT !.o[p].st = "unique"], h, p, d, oom))

CopyCtor ==
  \E h, r \in UserHandles :
    /\ Dead(h) /\ Live(r)
    /\ Return("CopyCtor", h, r, 0, "default", copy_ctor(World, h, r))

ConvCopyCtor ==
  \E h, r \in UserHandles :
    /\ Dead(h) /\ Live(r)
    /\ Return("ConvCopyCtor", h, r, 0, "default", conv_copy_ctor(World, h, r))

MoveCtor ==
  \E h, r \in UserHandles :
    /\ Dead(h) /\ Live(r)
    /\ Return("MoveCtor", h, r, 0, "default", move_ctor(World, h, r))

ConvMoveCtor ==
  \E h, r \in UserHandles :
    /\ Dead(h) /\ Live(r)
    /\ Return("ConvMoveCtor", h, r, 0, "default", conv_move_ctor(World, h, r))

AliasCtor ==
  \E h, r \in UserHandles, p \in Ptrs :
    /\ Dead(h) /\ Live(r) /\ Known(p)
    /\ Return("AliasCtor", h, r, p, "default", alias_ctor(World, h, r, p))

AliasMoveCtor ==
  \E h, r \in UserHandles, p \in Ptrs :
    /\ Dead(h) /\ Live(r) /\ Known(p)
    /\ Return("AliasMoveCtor", h, r, p, "default", alias_move_ctor(World, h, r, p))

CopyAssign ==
  \E h, r \in UserHandles :
    /\ Live(h) /\ Live(r)
    /\ Return("CopyAssign", h, r, 0, "default", copy_assign(World, h, r))

MoveAssign ==
  \E h, r \in UserHandles :
    /\ Live(h) /\ Live(r)
    /\ Return("MoveAssign", h, r, 0, "default", move_assign(World, h, r))

Reset ==
  \E h \in UserHandles :
    /\ Live(h)
    /\ Return("Reset", h, 0, 0, "default", reset(World, h))

ResetPtr ==
  \E h \in UserHandles, p \in Ptrs, d \in Deleters, oom \in BOOLEAN :
    /\ Live(h) /\ Adoptable(p)
    /\ p = Null => ~oom
    /\ Return("ResetPtr", h, 0, p, d, reset_ptr(World, h, p, d, oom))

Swap ==
  \E h, r \in UserHandles :
    /\ Live(h) /\ Live(r)
    /\ Return("Swap", h, r, 0, "default", swap(World, h, r))

Dtor ==
  \E h \in UserHandles :
    /\ Live(h)
    /\ Return("Dtor", h, 0, 0, "default", dtor(World, h))

\* The client has looked at the result of the call and goes on.  After a
\* failed construction from a unique_ptr it takes the object back out of the
\* unique_ptr (release()), as it still holds the raw pointer after a failed
\* construction from a raw pointer.
Proceed ==
  /\ last.op # "none"
  /\ last' = NoOp
  /\ objects' = IF last.op = "CtorUnique" /\ ~last.ok
                  THEN [objects EXCEPT ![last.p].st = "raw"]
                  ELSE objects
  /\ UNCHANGED <<handles, blocks, assertFailed>>
  /\ UNCHANGED mtvars

Next ==
  \/ Proceed
  \/ CtorDefault \/ CtorPtr \/ CtorUnique \/ CopyCtor \/ ConvCopyCtor \/ MoveCtor
  \/ ConvMoveCtor \/ AliasCtor \/ AliasMoveCtor \/ CopyAssign \/ MoveAssign
  \/ Reset \/ ResetPtr \/ Swap \/ Dtor

Spec == Init /\ [][Next]_vars

\* --------------------------------------------------- concurrent clients
\* The memory orders the counters are updated with.
IncrementOrder == "relaxed"
DecrementOrder == "relaxed"

\* What an atomic read-modify-write of the given order publishes and learns
\* (C++ [intro.races]: a release operation heads a release sequence that
\* later read-modify-writes continue; an acquire operation that reads from
\* it synchronizes with the head).
Releases(order) == order \in {"release", "acq_rel", "seq_cst"}
Acquires(order) == order \in {"acquire", "acq_rel", "seq_cst"}

Max(a, b) == IF a >= b THEN a ELSE b
Join(v1, v2) == [u \in Threads |-> Max(v1[u], v2[u])]

RmwView(order, t, c) ==
  IF Acquires(order) THEN Join(view[t], rel[c]) ELSE view[t]
RmwRel(order, t, c) ==
  IF Releases(order) THEN Join(rel[c], view[t]) ELSE rel[c]

observes_any_owner(old) == old >= 1

\* if (old_use_count == 1)
observes_last_owner(old) == old = 1

InitMT ==
  /\ MTIdle
  /\ handles = [i \in ThreadHandles |-> NoHandle]
  /\ blocks = [c \in BlockIds |-> NoBlock]
  /\ objects = [x \in Objs |-> RawObject]
  /\ assertFailed = FALSE
  /\ last = NoOp

RECURSIVE Distribute(_, _)
Distribute(w, t) ==
  IF t > NumThreads THEN w
  ELSE Distribute(copy_ctor(w, <<t, 1>>, <<1, 1>>), t + 1)

\* Before the threads run: one thread adopts a new object and gives every
\* other thread its own copy of the handle.  Starting a thread orders all of
\* this before the thread's first step.
MTSetup ==
  /\ \A t \in Threads : pc[t] = "unstarted"
  /\ LET w == Distribute(ctor_ptr(World, <<1, 1>>, 1, "default", FALSE), 2)
     IN /\ handles' = w.h
        /\ blocks' = w.b
        /\ objects' = w.o
  /\ pc' = [t \in Threads |-> "idle"]
  /\ UNCHANGED <<assertFailed, last, reg, clock, view, rel, mtlog>>

\* A thread reads or writes the object through one of its handles.
MTAccess ==
  \E t \in Threads, s \in Slots :
    /\ pc[t] = "idle"
    /\ handles[<<t, s>>].live /\ handles[<<t, s>>].ptr_ # Null
    /\ clock[t] < MaxAccess
    /\ clock' = [clock EXCEPT ![t] = @ + 1]
    /\ view' = [view EXCEPT ![t][t] = @ + 1]
    /\ UNCHANGED <<handles, blocks, objects, assertFailed, last, pc, reg, rel, mtlog>>

\* shared_ptr(const shared_ptr &r), up to and including
\* use_count.fetch_add(1, relaxed) of increment_use_count.  The new handle
\* is the thread's next unused variable.
MTCopyFetchAdd ==
  \E t \in Threads, s \in Slots, d \in Slots :
    /\ pc[t] = "idle"
    /\ handles[<<t, s>>].live /\ ~handles[<<t, d>>].live
    /\ \A e \in Slots : e < d => handles[<<t, e>>].live
    /\ LET c == handles[<<t, s>>].ctrl_
       IN IF c = Null
            THEN /\ handles' = [handles EXCEPT ![<<t, d>>] =
                                  [live |-> TRUE, ptr_ |-> Null, ctrl_ |-> Null]]
                 /\ UNCHANGED <<blocks, pc, reg, view, rel>>
            ELSE /\ blocks' = [blocks EXCEPT ![c].use_count = @ + 1]
                 /\ reg' = [reg EXCEPT ![t] = [h |-> d, r |-> s,
                                               old |-> blocks[c].use_count]]
                 /\ pc' = [pc EXCEPT ![t] = "copy_assign"]
                 /\ view' = [view EXCEPT ![t] = RmwView(IncrementOrder, t, c)]
                 /\ rel' = [rel EXCEPT ![c] = RmwRel(IncrementOrder, t, c)]
                 /\ UNCHANGED handles
    /\ UNCHANGED <<objects, assertFailed, last, clock, mtlog>>

\* The rest of the copy constructor: the weak_count.fetch_add of
\* increment_use_count if the count was 0, then ctrl_ = r.ctrl_; ptr_ = r.ptr_.
MTCopyAssign ==
  \E t \in Threads :
    /\ pc[t] = "copy_assign"
    /\ LET src == handles[<<t, reg[t].r>>]
       IN /\ blocks' = IF reg[t].old = 0
                         THEN [blocks EXCEPT ![src.ctrl_].weak_count = @ + 1]
                         ELSE blocks
          /\ handles' = [handles EXCEPT ![<<t, reg[t].h>>] =
                           [live |-> TRUE, ptr_ |-> src.ptr_, ctrl_ |-> src.ctrl_]]
    /\ pc' = [pc EXCEPT ![t] = "idle"]
    /\ reg' = [reg EXCEPT ![t] = NoReg]
    /\ UNCHANGED <<objects, assertFailed, last, clock, view, rel, mtlog>>

\* ~shared_ptr() -> reset() -> decrement_use_count(), up to and including
\* use_count.fetch_sub(1, relaxed) and the test of the value it returned.
MTFetchSub ==
  \E t \in Threads, s \in Slots :
    /\ pc[t] = "idle"
    /\ handles[<<t, s>>].live
    /\ LET c == handles[<<t, s>>].ctrl_
       IN IF c = Null
            THEN /\ handles' = [handles EXCEPT ![<<t, s>>] = NoHandle]
                 /\ UNCHANGED <<blocks, assertFailed, pc, reg, view, rel, mtlog>>
            ELSE LET old_use_count == blocks[c].use_count
                 IN /\ blocks' = [blocks EXCEPT ![c].use_count = @ - 1]
                    /\ assertFailed' = (assertFailed \/ ~(old_use_count > 0))
                    /\ view' = [view EXCEPT ![t] = RmwView(DecrementOrder, t, c)]
                    /\ rel' = [rel EXCEPT ![c] = RmwRel(DecrementOrder, t, c)]
                    /\ IF observes_last_owner(old_use_count)
                         THEN /\ pc' = [pc EXCEPT ![t] = "destroy"]
                              /\ reg' = [reg EXCEPT ![t] = [h |-> s, r |-> 0,
                                                            old |-> old_use_count]]
                              /\ mtlog' = [mtlog EXCEPT ![c].zero = Append(@, t)]
                              /\ UNCHANGED handles
                         ELSE /\ handles' = [handles EXCEPT ![<<t, s>>] = NoHandle]
                              /\ UNCHANGED <<pc, reg, mtlog>>
    /\ UNCHANGED <<objects, last, clock>>

\* destroy();
MTDestroy ==
  \E t \in Threads :
    /\ pc[t] = "destroy"
    /\ LET c == handles[<<t, reg[t].h>>].ctrl_
           w == destroy(World, c, <<t, reg[t].h>>)
       IN /\ blocks' = w.b
          /\ objects' = w.o
          /\ mtlog' = [mtlog EXCEPT ![c].ran = Append(@, t)]
    /\ pc' = [pc EXCEPT ![t] = "weak_dec"]
    /\ UNCHANGED <<handles, assertFailed, last, reg, clock, view, rel>>

\* weak_count.fetch_sub(1, relaxed) and the test of the value it returned.
MTWeakFetchSub ==
  \E t \in Threads :
    /\ pc[t] = "weak_dec"
    /\ LET c == handles[<<t, reg[t].h>>].ctrl_
           old_weak_count == blocks[c].weak_count
       IN /\ blocks' = [blocks EXCEPT ![c].weak_count = @ - 1]
          /\ assertFailed' = (assertFailed \/ ~(old_weak_count > 0))
          /\ IF old_weak_count = 1
               THEN /\ pc' = [pc EXCEPT ![t] = "delete"]
                    /\ UNCHANGED <<handles, reg>>
               ELSE /\ pc' = [pc EXCEPT ![t] = "idle"]
                    /\ handles' = [handles EXCEPT ![<<t, reg[t].h>>] = NoHandle]
                    /\ reg' = [reg EXCEPT ![t] = NoReg]
    /\ UNCHANGED <<objects, last, clock, view, rel, mtlog>>

\* delete this; then clear() and the end of the handle.
MTDelete ==
  \E t \in Threads :
    /\ pc[t] = "delete"
    /\ LET c == handles[<<t, reg[t].h>>].ctrl_
       IN blocks' = [blocks EXCEPT ![c].st = "freed", ![c].frees = @ + 1]
    /\ handles' = [handles EXCEPT ![<<t, reg[t].h>>] = NoHandle]
    /\ pc' = [pc EXCEPT ![t] = "idle"]
    /\ reg' = [reg EXCEPT ![t] = NoReg]
    /\ UNCHANGED <<objects, assertFailed, last, clock, view, rel, mtlog>>

NextMT ==
  \/ MTSetup \/ MTAccess \/ MTCopyFetchAdd \/ MTCopyAssign
  \/ MTFetchSub \/ MTDestroy \/ MTWeakFetchSub \/ MTDelete

SpecMT == InitMT /\ [][NextMT]_vars

\* ------------------------------- one client or several, in one specification
\* The program is either the single-threaded client of Spec or the threads of
\* SpecMT; which one it is shows in the handles it has.
Sequential == DOMAIN handles = HandleIds

InitBoth == Init \/ InitMT

SeqStep == Sequential /\ Next

MTStep == ~Sequential /\ NextMT

NextBoth == SeqStep \/ MTStep

SpecBoth == InitBoth /\ [][NextBoth]_vars

\* ------------------------------------- the first definition in the file
\* shared_ptr.hpp holds an earlier definition of the same classes (lines
\* 21-275).  Its control_block_with_ptr starts the counters with
\* control_block(1, 0), and its decrement_use_count has no asserts; the copy
\* constructor, reset(), clear() and destroy() read the same as the later ones.
control_block_with_ptr_first(p, d) ==
  [st |-> "live", use_count |-> 1, weak_count |-> 0, ptr_ |-> p,
   deleter_ |-> d, destroys |-> 0, frees |-> 0]

decrement_use_count_first(w, c, by) ==
  LET w1 == [w EXCEPT !.b[c].use_count = @ - 1]
  IN IF w.b[c].use_count = 1
       THEN LET w2 == destroy(w1, c, by)
                w3 == [w2 EXCEPT !.b[c].weak_count = @ - 1]
            IN IF w2.b[c].weak_count = 1
                 THEN [w3 EXCEPT !.b[c].st = "freed", !.b[c].frees = @ + 1]
                 ELSE w3
       ELSE w1

\* shared_ptr(Y *ptr) and shared_ptr(Y *ptr, Deleter d) of the first
\* definition.  The control block is control_block_with_ptr<T>, whose Deleter
\* is DefaultDeleter: a call with any other deleter type does not compile, so
\* the deleter is always the default one.
ctor_ptr_first(w, h, p, oom) ==
  IF p = Null
    THEN clear(Begin(w, h), h)
    ELSE IF oom
      THEN [w EXCEPT !.threw = TRUE]
      ELSE LET c == FreshBlock(w)
           IN [Begin(w, h) EXCEPT !.h[h].ptr_ = p, !.h[h].ctrl_ = c,
                                  !.b[c] = control_block_with_ptr_first(p, "default"),
                                  !.o[p].st = "owned"]

\* shared_ptr(unique_ptr<Y, Deleter> &&r) of the first definition; it
\* compiles for a unique_ptr whose deleter type is detail::DefaultDeleter.
ctor_unique_first(w, h, p, oom) ==
  LET released == IF p = Null THEN w ELSE [w EXCEPT !.o[p].st = "raw"]
      w1 == ctor_ptr_first(released, h, p, oom)
  IN IF w1.threw /\ p # Null
       THEN [w1 EXCEPT !.o[p].st = "unique"]
       ELSE w1

reset_first(w, h) ==
  LET w1 == IF w.h[h].ctrl_ # Null
              THEN decrement_use_count_first(w, w.h[h].ctrl_, h)
              ELSE w
  IN clear(w1, h)

dtor_first(w, h) == [reset_first(w, h) EXCEPT !.h[h] = NoHandle]

\* swap of the first definition is ::std::swap(*this, r), which move-assigns;
\* both operator= of the first definition call temp.swap(*this).  A call of
\* any of the three recurses without end and the process is killed when the
\* stack overflows: the call never returns and the client makes no further
\* call.  The state kept is the one the call was made in.
KilledOps == {"CopyAssign", "MoveAssign", "Swap"}
Killed == last.op \in KilledOps /\ ~last.ok

NeverReturns(op, h, r) ==
  /\ last' = [op |-> op, h |-> h, r |-> r, p |-> 0, d |-> "default", ok |-> FALSE,
              pre |-> [h |-> handles, b |-> blocks, o |-> objects],
              seen |-> <<>>]
  /\ UNCHANGED <<handles, blocks, objects, assertFailed>>
  /\ UNCHANGED mtvars

FirstCtorDefault ==
  \E h \in UserHandles :
    /\ Dead(h)
    /\ Return("CtorDefault", h, 0, 0, "default", ctor_default(World, h))

FirstCtorPtr ==
  \E h \in UserHandles, p \in Ptrs, oom \in BOOLEAN :
    /\ Dead(h) /\ Adoptable(p)
    /\ p = Null => ~oom
    /\ Return("CtorPtr", h, 0, p, "default", ctor_ptr_first(World, h, p, oom))

FirstCtorUnique ==
  \E h \in UserHandles, p \in Ptrs, oom \in BOOLEAN :
    /\ Dead(h) /\ Adoptable(p)
    /\ p = Null => ~oom
    /\ Return("CtorUnique", h, 0, p, "default",
              ctor_unique_first(IF p = Null THEN World
                                ELSE [World EXCEPT !.o[p].st = "unique"], h, p, oom))

FirstCopyCtor ==
  \E h, r \in UserHandles :
    /\ Dead(h) /\ Live(r)
    /\ Return("CopyCtor", h, r, 0, "default", copy_ctor(World, h, r))

FirstConvCopyCtor ==
  \E h, r \in UserHandles :
    /\ Dead(h) /\ Live(r)
    /\ Return("ConvCopyCtor", h, r, 0, "default", conv_copy_ctor(World, h, r))

FirstMoveCtor ==
  \E h, r \in UserHandles :
    /\ Dead(h) /\ Live(r)
    /\ Return("MoveCtor", h, r, 0, "default", move_ctor(World, h, r))

FirstConvMoveCtor ==
  \E h, r \in UserHandles :
    /\ Dead(h) /\ Live(r)
    /\ Return("ConvMoveCtor", h, r, 0, "default", conv_move_ctor(World, h, r))

FirstAliasCtor ==
  \E h, r \in UserHandles, p \in Ptrs :
    /\ Dead(h) /\ Live(r) /\ Known(p)
    /\ Return("AliasCtor", h, r, p, "default", alias_ctor(World, h, r, p))

FirstAliasMoveCtor ==
  \E h, r \in UserHandles, p \in Ptrs :
    /\ Dead(h) /\ Live(r) /\ Known(p)
    /\ Return("AliasMoveCtor", h, r, p, "default", alias_move_ctor(World, h, r, p))

FirstCopyAssign ==
  \E h, r \in UserHandles :
    /\ Live(h) /\ Live(r)
    /\ NeverReturns("CopyAssign", h, r)

FirstMoveAssign ==
  \E h, r \in UserHandles :
    /\ Live(h) /\ Live(r)
    /\ NeverReturns("MoveAssign", h, r)

FirstSwap ==
  \E h, r \in UserHandles :
    /\ Live(h) /\ Live(r)
    /\ NeverReturns("Swap", h, r)

FirstReset ==
  \E h \in UserHandles :
    /\ Live(h)
    /\ Return("Reset", h, 0, 0, "default", reset_first(World, h))

FirstDtor ==
  \E h \in UserHandles :
    /\ Live(h)
    /\ Return("Dtor", h, 0, 0, "default", dtor_first(World, h))

FirstProceed == ~Killed /\ Proceed

NextFirst ==
  \/ FirstProceed
  \/ FirstCtorDefault \/ FirstCtorPtr \/ FirstCtorUnique \/ FirstCopyCtor
  \/ FirstConvCopyCtor \/ FirstMoveCtor \/ FirstConvMoveCtor
  \/ FirstAliasCtor \/ FirstAliasMoveCtor
  \/ FirstCopyAssign \/ FirstMoveAssign \/ FirstSwap
  \/ FirstReset \/ FirstDtor

SpecFirst == Init /\ [][NextFirst]_vars

\* ------------------------------------------------------------- properties
\* The live handles of hs whose control-block pointer is c.
Refs(hs, c) == {i \in DOMAIN hs : hs[i].live /\ hs[i].ctrl_ = c}

Allocated(c) == blocks[c].st # "unalloc"

\* The call the client is looking at, and the state it was made in.
Called(op) == last.op = op
PreCtrl(i) == last.pre.h[i].ctrl_
PrePtr(i) == last.pre.h[i].ptr_
PreUse(c) == last.pre.b[c].use_count

\* A handle is empty when get() is null and use_count() is 0.
Empty(w, i) == get(w, i) = Null /\ use_count(w, i) = 0
PreWorld == [h |-> last.pre.h, b |-> last.pre.b]
PreEmpty(i) == Empty(PreWorld, i)

\* Every control block other than those of cs is as it was before the call.
OtherBlocksUnchanged(cs) ==
  \A c \in BlockIds \ cs : blocks[c] = last.pre.b[c]

\* C1: the destruction routine of a control block runs at most once; when it
\* runs, the handle being destroyed or reset is the only live handle that
\* references the block; and once no handle references an allocated block,
\* the routine has run exactly once (and the object was released once).
C1_DestroyedExactlyOnceByLastOwner ==
  /\ \A c \in BlockIds :
       /\ blocks[c].destroys <= 1
       /\ blocks[c].destroys = 1 => Refs(handles, c) = {}
       /\ (Allocated(c) /\ Refs(handles, c) = {}) => blocks[c].destroys = 1
  /\ \A x \in Objs :
       /\ objects[x].deleted_default + objects[x].deleted_custom <= 1
       /\ objects[x].st = "deleted" <=>
            objects[x].deleted_default + objects[x].deleted_custom = 1
  /\ \A i \in 1..Len(last.seen) :
       LET e == last.seen[i]
       IN /\ Refs(e.h, e.cb) = {e.by}
          /\ last.pre.b[e.cb].destroys = 0
          /\ e.by = Temp \/ (last.op \in {"Reset", "Dtor"} /\ e.by = last.h)

\* Two handles shared a block; the first was reset, and now the destruction
\* of the second has run the routine.
C1_Witness ==
  /\ Called("Dtor")
  /\ Len(last.seen) = 1
  /\ \E i \in UserHandles :
       /\ i # last.h /\ handles[i].live /\ handles[i].ctrl_ = Null
       /\ blocks[PreCtrl(last.h)].destroys = 1
       /\ objects[1].st = "deleted"

\* C2: use_count() of any live handle that has a control block is the number
\* of live handles whose control-block pointer is that block.
C2_UseCountIsNumberOfOwners ==
  \A i \in HandleIds :
    (handles[i].live /\ handles[i].ctrl_ # Null) =>
      use_count(World, i) =
        Cardinality({j \in Refs(handles, handles[i].ctrl_) : ~Empty(World, j)})

\* After a copy, a move and a reset, two handles share a block counted 2.
C2_Witness ==
  /\ Called("MoveAssign")
  /\ \E i, j \in UserHandles :
       /\ i # j
       /\ handles[i].live /\ handles[j].live
       /\ handles[i].ctrl_ # Null /\ handles[i].ctrl_ = handles[j].ctrl_
       /\ use_count(World, i) = 2
       /\ \E c \in BlockIds : blocks[c].st = "freed"

\* C5: move assignment b = std::move(a), a # b, a non-empty: b takes a's two
\* pointers, the strong count of a's block is unchanged, a is left empty, and
\* the block b held before is decremented once.
C5_MoveAssignTransfers ==
  (Called("MoveAssign") /\ last.h # last.r /\ PreCtrl(last.r) # Null) =>
    LET a == last.r
        b == last.h
        c == PreCtrl(a)
        d == PreCtrl(b)
    IN /\ handles[b].ptr_ = PrePtr(a)
       /\ handles[b].ctrl_ = c
       /\ handles[a].ptr_ = Null
       /\ use_count(World, a) = 0
       /\ d # c => blocks[c].use_count = PreUse(c)
       /\ (d # Null /\ d # c) => blocks[d].use_count = PreUse(d) - 1

\* C6: after move construction b(std::move(a)): b holds what a held, a is
\* empty, and no control block has changed (so b.use_count() is 1 if a was
\* the sole owner).
C6_MoveCtorTransfers ==
  Called("MoveCtor") =>
    LET a == last.r
        b == last.h
    IN /\ handles[b].live
       /\ handles[b].ptr_ = PrePtr(a)
       /\ handles[b].ctrl_ = PreCtrl(a)
       /\ get(World, a) = Null
       /\ handles[a].ctrl_ = Null
       /\ use_count(World, a) = 0
       /\ blocks = last.pre.b
       /\ (PreCtrl(a) # Null /\ PreUse(PreCtrl(a)) = 1) => use_count(World, b) = 1

\* The sole owner of a block was moved from.
C6_Witness ==
  /\ Called("MoveCtor")
  /\ PreCtrl(last.r) # Null
  /\ PreUse(PreCtrl(last.r)) = 1
  /\ use_count(World, last.h) = 1

\* C7: copy construction, converting copy construction and copy assignment
\* from a non-empty source add exactly one to the strong count of the
\* source's control block and give the destination the source's two
\* pointers; from an empty source the destination is empty and no count
\* rises.  Copy assignment also takes exactly one off the block the
\* destination held before.
C7_CopySharesAndCounts ==
  /\ (Called("CopyCtor") \/ Called("ConvCopyCtor")) =>
       LET c == PreCtrl(last.r)
       IN /\ handles[last.r] = last.pre.h[last.r]
          /\ IF ~PreEmpty(last.r)
               THEN /\ c # Null
                    /\ handles[last.h].ptr_ = PrePtr(last.r)
                    /\ handles[last.h].ctrl_ = c
                    /\ blocks[c] = [last.pre.b[c] EXCEPT !.use_count = @ + 1]
                    /\ OtherBlocksUnchanged({c})
               ELSE /\ Empty(World, last.h)
                    /\ blocks = last.pre.b
  /\ Called("CopyAssign") =>
       LET c == PreCtrl(last.r)
           d == PreCtrl(last.h)
           inc(x) == IF x = c THEN 1 ELSE 0
           dec(x) == IF x = d THEN 1 ELSE 0
       IN /\ last.h # last.r => handles[last.r] = last.pre.h[last.r]
          /\ IF ~PreEmpty(last.r)
               THEN /\ c # Null
                    /\ handles[last.h].ptr_ = PrePtr(last.r)
                    /\ handles[last.h].ctrl_ = c
               ELSE Empty(World, last.h)
          /\ \A x \in BlockIds :
               /\ blocks[x].use_count = PreUse(x) + inc(x) - dec(x)
               /\ blocks[x].destroys = last.pre.b[x].destroys +
                    (IF x = d /\ x # c /\ PreUse(x) = 1 THEN 1 ELSE 0)

\* What the copy operations do for every source, told apart the way the code
\* tells them apart (by the source's control-block pointer): a source with a
\* block is shared and counted, a source without one gives an empty handle.
CopyFollowsControlBlock ==
  /\ (Called("CopyCtor") \/ Called("ConvCopyCtor")) =>
       LET c == PreCtrl(last.r)
       IN /\ handles[last.r] = last.pre.h[last.r]
          /\ IF c # Null
               THEN /\ handles[last.h].ptr_ = PrePtr(last.r)
                    /\ handles[last.h].ctrl_ = c
                    /\ blocks[c] = [last.pre.b[c] EXCEPT !.use_count = @ + 1]
                    /\ OtherBlocksUnchanged({c})
               ELSE /\ Empty(World, last.h)
                    /\ blocks = last.pre.b
  /\ Called("CopyAssign") =>
       LET c == PreCtrl(last.r)
           d == PreCtrl(last.h)
           inc(x) == IF x = c THEN 1 ELSE 0
           dec(x) == IF x = d THEN 1 ELSE 0
       IN /\ handles[last.h].ctrl_ = c
          /\ handles[last.h].ptr_ = (IF c # Null THEN PrePtr(last.r) ELSE Null)
          /\ \A x \in BlockIds :
               /\ blocks[x].use_count = PreUse(x) + inc(x) - dec(x)
               /\ blocks[x].destroys = last.pre.b[x].destroys +
                    (IF x = d /\ x # c /\ PreUse(x) = 1 THEN 1 ELSE 0)

\* A copy assignment from an owning source over the sole owner of another
\* block: the source's block now counts 2 and the other block is destroyed.
CopyAssignWitness ==
  /\ Called("CopyAssign")
  /\ PreCtrl(last.r) # Null /\ PreCtrl(last.h) # Null
  /\ PreCtrl(last.r) # PreCtrl(last.h)
  /\ use_count(World, last.h) = 2
  /\ blocks[PreCtrl(last.h)].destroys = 1

\* C8: self-assignment h = h leaves use_count() unchanged and leaves h
\* non-empty if it was non-empty; the destruction routine does not run, also
\* when h is the sole owner.
C8_SelfAssignIsNoOp ==
  (Called("CopyAssign") /\ last.h = last.r) =>
    /\ use_count(World, last.h) = use_count(PreWorld, last.h)
    /\ ~PreEmpty(last.h) => ~Empty(World, last.h)
    /\ \A c \in BlockIds : blocks[c].destroys = last.pre.b[c].destroys
    /\ last.seen = <<>>

\* Self-assignment of a handle that has a control block changes no handle,
\* no block and no object, also when it is the sole owner.
SelfAssignKeepsOwner ==
  (Called("CopyAssign") /\ last.h = last.r /\ PreCtrl(last.h) # Null) =>
    /\ handles = last.pre.h
    /\ blocks = last.pre.b
    /\ objects = last.pre.o
    /\ last.seen = <<>>

\* The sole owner of a block was assigned to itself.
SelfAssignWitness ==
  /\ Called("CopyAssign") /\ last.h = last.r
  /\ PreCtrl(last.h) # Null
  /\ PreUse(PreCtrl(last.h)) = 1
  /\ use_count(World, last.h) = 1

\* C9: aliasing construction from r and p gives a handle whose get() is p and
\* whose control block is r's, with that block's strong count one higher; and
\* no block that a live handle (an aliasing one included) points to has been
\* destroyed or freed, nor its object released.
C9_AliasSharesOwnership ==
  /\ (Called("AliasCtor") \/ Called("AliasMoveCtor")) =>
       LET c == PreCtrl(last.r)
       IN /\ get(World, last.h) = last.p
          /\ handles[last.h].ctrl_ = c
          /\ c # Null => blocks[c] = [last.pre.b[c] EXCEPT !.use_count = @ + 1]
          /\ OtherBlocksUnchanged({c})
  /\ \A i \in HandleIds :
       (handles[i].live /\ handles[i].ctrl_ # Null) =>
         LET c == handles[i].ctrl_
         IN /\ blocks[c].st = "live"
            /\ blocks[c].destroys = 0
            /\ blocks[c].ptr_ # Null
            /\ objects[blocks[c].ptr_].st = "owned"

\* An aliasing handle (its pointer is not the managed one) is the only owner
\* left after the last other handle of its block was released.
C9_Witness ==
  /\ Called("Reset") \/ Called("Dtor")
  /\ PreCtrl(last.h) # Null
  /\ PreUse(PreCtrl(last.h)) = 2
  /\ \E i \in UserHandles :
       /\ handles[i].live
       /\ handles[i].ctrl_ = PreCtrl(last.h)
       /\ handles[i].ptr_ # Null
       /\ handles[i].ptr_ # blocks[handles[i].ctrl_].ptr_
       /\ use_count(World, i) = 1

\* C10: reset(p) / reset(p, d) with p non-null.  If it returns, h holds p and
\* a control block that did not exist before, counted 1; the block h held
\* before is decremented once, and whenever its destruction routine ran, h
\* already held p and the new block.  If constructing the new handle throws,
\* no handle, block or object has changed.
C10_ResetPtrAttachesBeforeRelease ==
  (Called("ResetPtr") /\ last.p # Null) =>
    LET h == last.h
        d == PreCtrl(h)
        n == handles[h].ctrl_
    IN IF last.ok
         THEN /\ handles[h].live
              /\ handles[h].ptr_ = last.p
              /\ n # Null
              /\ last.pre.b[n].st = "unalloc"
              /\ blocks[n].st = "live"
              /\ blocks[n].use_count = 1
              /\ blocks[n].ptr_ = last.p
              /\ blocks[n].deleter_ = last.d
              /\ d # Null => blocks[d].use_count = PreUse(d) - 1
              /\ (d # Null /\ PreUse(d) = 1) => Len(last.seen) = 1
              /\ \A i \in 1..Len(last.seen) :
                   /\ last.seen[i].cb = d
                   /\ last.seen[i].h[h].ptr_ = last.p
                   /\ last.seen[i].h[h].ctrl_ = n
         ELSE /\ handles = last.pre.h
              /\ blocks = last.pre.b
              /\ objects = last.pre.o
              /\ last.seen = <<>>

\* reset(p) on the sole owner of another object: the old object's routine
\* has run.
C10_Witness ==
  /\ Called("ResetPtr") /\ last.p # Null /\ last.ok
  /\ PreCtrl(last.h) # Null
  /\ Len(last.seen) = 1
  /\ objects[PrePtr(last.h)].st = "deleted"

\* reset(p) whose allocation failed, on a handle that owns an object.
C10_WitnessThrow ==
  /\ Called("ResetPtr") /\ ~last.ok
  /\ PreCtrl(last.h) # Null

\* C11: reset() on a handle that has a control block takes exactly one off
\* the block's strong count and runs the destruction routine, before it
\* returns, exactly when the handle was the last owner; the handle is empty
\* afterwards and nothing else changes.  On an empty handle it changes
\* nothing, and a second reset() after the first changes nothing.
C11_ResetReleasesOnceAndIsIdempotent ==
  Called("Reset") =>
    LET h == last.h
        c == PreCtrl(h)
        again == reset(World, h)
    IN /\ handles[h].live
       /\ Empty(World, h)
       /\ \A i \in HandleIds \ {h} : handles[i] = last.pre.h[i]
       /\ c # Null =>
            /\ blocks[c].use_count = PreUse(c) - 1
            /\ blocks[c].destroys =
                 last.pre.b[c].destroys + (IF PreUse(c) = 1 THEN 1 ELSE 0)
            /\ Len(last.seen) = (IF PreUse(c) = 1 THEN 1 ELSE 0)
       /\ OtherBlocksUnchanged({c})
       /\ PreEmpty(h) =>
            /\ handles = last.pre.h
            /\ blocks = last.pre.b
            /\ objects = last.pre.o
            /\ last.seen = <<>>
       /\ again.h = handles
       /\ again.b = blocks
       /\ again.o = objects
       /\ again.seen = <<>>

\* reset() on the last owner: the routine has run and the handle is empty.
C11_Witness ==
  /\ Called("Reset")
  /\ PreCtrl(last.h) # Null
  /\ PreUse(PreCtrl(last.h)) = 1
  /\ Len(last.seen) = 1
  /\ Empty(World, last.h)

\* C12: when the allocation of the control block fails in a constructor, the
\* handle does not come to exist, no handle and no block has changed, no
\* deleter has run and no block holds the pointer; a raw pointer is still the
\* caller's, and the unique_ptr a handle was to be made from owns its object
\* again.
C12_FailedConstructionAdoptsNothing ==
  ((Called("CtorPtr") \/ Called("CtorUnique")) /\ ~last.ok) =>
    /\ last.p # Null
    /\ handles = last.pre.h
    /\ ~handles[last.h].live
    /\ blocks = last.pre.b
    /\ \A c \in BlockIds : blocks[c].ptr_ # last.p
    /\ last.seen = <<>>
    /\ objects[last.p].deleted_default = 0
    /\ objects[last.p].deleted_custom = 0
    /\ objects[last.p].st = (IF Called("CtorUnique") THEN "unique" ELSE "raw")
    /\ \A x \in Objs \ {last.p} : objects[x] = last.pre.o[x]

\* Construction from a unique_ptr failed while another handle owns an object.
C12_Witness ==
  /\ Called("CtorUnique") /\ ~last.ok
  /\ objects[last.p].st = "unique"
  /\ \E i \in UserHandles : handles[i].live /\ handles[i].ctrl_ # Null

\* C13: every call that takes the strong count of a block made with a custom
\* deleter from 1 to 0 runs the block's destruction routine, once, and the
\* routine applies the custom deleter, and not the default one, to the object,
\* which no deleter had been applied to; a block with a custom deleter whose
\* count is 0 has had its routine run exactly once; while the count is above
\* 0 no deleter has been applied; and no object ever has more than one deleter
\* application.
C13_CustomDeleterRunsOnceAtZero ==
  /\ \A c \in BlockIds :
       (last.pre.b[c].deleter_ = "custom" /\ last.pre.b[c].use_count = 1
          /\ blocks[c].use_count = 0) =>
         /\ Len(last.seen) = 1
         /\ last.seen[1].cb = c
         /\ blocks[c].destroys = 1
         /\ objects[last.pre.b[c].ptr_].st = "deleted"
         /\ objects[last.pre.b[c].ptr_].deleted_custom = 1
         /\ objects[last.pre.b[c].ptr_].deleted_default = 0
  /\ \A c \in BlockIds :
       (Allocated(c) /\ blocks[c].deleter_ = "custom" /\ blocks[c].use_count = 0) =>
         /\ blocks[c].destroys = 1
         /\ blocks[c].ptr_ = Null
  /\ Cardinality({c \in BlockIds : Allocated(c) /\ blocks[c].deleter_ = "custom"
                                      /\ blocks[c].use_count = 0})
       = Cardinality({x \in Objs : objects[x].deleted_custom = 1})
  /\ \A i \in 1..Len(last.seen) :
       LET c == last.seen[i].cb
           b == last.pre.b[c]
           x == b.ptr_
       IN /\ x # Null
          /\ b.use_count = 1
          /\ blocks[c].use_count = 0
          /\ last.pre.o[x].deleted_custom + last.pre.o[x].deleted_default = 0
          /\ b.deleter_ = "custom" =>
               /\ objects[x].deleted_custom = 1
               /\ objects[x].deleted_default = 0
  /\ \A c \in BlockIds :
       (blocks[c].deleter_ = "custom" /\ blocks[c].use_count > 0) =>
         /\ blocks[c].ptr_ # Null
         /\ objects[blocks[c].ptr_].deleted_custom = 0
         /\ objects[blocks[c].ptr_].deleted_default = 0
  /\ \A x \in Objs :
       /\ objects[x].deleted_custom <= 1
       /\ objects[x].deleted_custom = 1 => objects[x].deleted_default = 0

\* The last of several handles of a block with a custom deleter is destroyed
\* (another handle, emptied before, is still there).
C13_Witness ==
  /\ Called("Dtor")
  /\ Len(last.seen) = 1
  /\ last.pre.b[last.seen[1].cb].deleter_ = "custom"
  /\ objects[last.pre.b[last.seen[1].cb].ptr_].deleted_custom = 1
  /\ \E i \in UserHandles : i # last.h /\ handles[i].live /\ handles[i].ctrl_ = Null

\* C14: swap exchanges the two pointers of the two handles, changes no other
\* handle, no control block and no object, and a second swap restores both
\* handles.
C14_SwapExchangesAndCountsNothing ==
  Called("Swap") =>
    LET h == last.h
        r == last.r
        back == swap(World, h, r)
    IN /\ handles[h] = last.pre.h[r]
       /\ handles[r] = last.pre.h[h]
       /\ \A i \in HandleIds \ {h, r} : handles[i] = last.pre.h[i]
       /\ blocks = last.pre.b
       /\ objects = last.pre.o
       /\ last.seen = <<>>
       /\ back.h = last.pre.h
       /\ back.b = last.pre.b

\* Two handles that own different objects were swapped.
C14_Witness ==
  /\ Called("Swap")
  /\ last.h # last.r
  /\ PreCtrl(last.h) # Null /\ PreCtrl(last.r) # Null
  /\ PreCtrl(last.h) # PreCtrl(last.r)
  /\ handles[last.h].ctrl_ = PreCtrl(last.r)
  /\ handles[last.h].ptr_ = PrePtr(last.r)

\* C15: construction from a null raw pointer, with either deleter, gives an
\* empty handle (use_count() 0, operator bool false), allocates no block and
\* runs no deleter; and reset() or the destruction of a handle that has no
\* control block changes no block and runs no deleter.
C15_NullPointerGivesEmptyHandle ==
  /\ (Called("CtorPtr") /\ last.p = Null) =>
       /\ last.ok
       /\ handles[last.h].live
       /\ use_count(World, last.h) = 0
       /\ ~operator_bool(World, last.h)
       /\ handles[last.h].ctrl_ = Null
       /\ blocks = last.pre.b
       /\ objects = last.pre.o
       /\ last.seen = <<>>
  /\ ((Called("Reset") \/ Called("Dtor")) /\ PreCtrl(last.h) = Null) =>
       /\ blocks = last.pre.b
       /\ objects = last.pre.o
       /\ last.seen = <<>>

\* A handle made from nullptr and a custom deleter, while another handle
\* owns an object.
C15_Witness ==
  /\ Called("CtorPtr") /\ last.p = Null /\ last.d = "custom"
  /\ \E i \in UserHandles : handles[i].live /\ handles[i].ctrl_ # Null

\* C16: every live handle has a null object pointer exactly when it has a
\* null control-block pointer, so operator bool is true exactly when
\* use_count() is above 0, and a control block it points to is live.
C16_PointerNullIffControlNull ==
  \A i \in HandleIds :
    handles[i].live =>
      /\ handles[i].ptr_ = Null <=> handles[i].ctrl_ = Null
      /\ operator_bool(World, i) <=> use_count(World, i) > 0
      /\ handles[i].ctrl_ # Null => blocks[handles[i].ctrl_].st = "live"

\* C17: a control block is freed at most once, in a call in which its
\* destruction routine has run and its weak_count went from 1 to 0; a block no
\* handle points to any more has been freed, and a block some live handle
\* points to has not.
C17_BlockFreedOnceAfterDestroy ==
  /\ \A c \in BlockIds :
       /\ blocks[c].frees <= 1
       /\ blocks[c].st = "freed" <=> blocks[c].frees = 1
       /\ blocks[c].st = "freed" =>
            /\ blocks[c].destroys = 1
            /\ blocks[c].use_count = 0
            /\ blocks[c].weak_count = 0
       /\ (Allocated(c) /\ Refs(handles, c) = {}) => blocks[c].st = "freed"
       /\ Refs(handles, c) # {} => blocks[c].st = "live"
       /\ (blocks[c].st = "freed" /\ last.pre.b[c].st = "live") =>
            /\ last.pre.b[c].weak_count = 1
            /\ last.pre.b[c].destroys = 0
            /\ Len(last.seen) = 1
            /\ last.seen[1].cb = c

\* reset(p) on the sole owner of another object: the old block was freed in
\* this call.
C17_Witness ==
  /\ Called("ResetPtr") /\ last.ok
  /\ PreCtrl(last.h) # Null
  /\ last.pre.b[PreCtrl(last.h)].st = "live"
  /\ blocks[PreCtrl(last.h)].st = "freed"
  /\ handles[last.h].ctrl_ # Null

\* C19: neither assert of decrement_use_count has failed, and no counter of
\* any control block is negative, in every state the single-threaded client
\* reaches by the public operations and in every state the threads reach by
\* interleaving the atomic steps of copies and destructions.
C19_AssertsHoldCountersNonNegative ==
  /\ ~assertFailed
  /\ \A c \in BlockIds :
       /\ blocks[c].use_count >= 0
       /\ blocks[c].weak_count >= 0

\* The single-threaded client has destroyed the last of two owners: both
\* counters went to 0 by the decrements of decrement_use_count.
SeqLastOwnerGone ==
  /\ Sequential
  /\ Called("Dtor")
  /\ PreCtrl(last.h) # Null
  /\ PreUse(PreCtrl(last.h)) = 1
  /\ blocks[PreCtrl(last.h)].use_count = 0
  /\ blocks[PreCtrl(last.h)].weak_count = 0
  /\ \E i \in UserHandles : i # last.h /\ handles[i].live /\ handles[i].ctrl_ = Null

\* The threads have released their handles in interleaved steps: thread 1
\* has none left and its fetch_sub was not the last, and thread 2 has taken
\* both counters to 0 and is about to delete the block.
C19_Witness ==
  /\ ~Sequential
  /\ pc[2] = "delete"
  /\ pc[1] = "idle"
  /\ \A s \in Slots : ~handles[<<1, s>>].live
  /\ blocks[1].use_count = 0
  /\ blocks[1].weak_count = 0
  /\ blocks[1].destroys = 1

\* C20: a control block whose strong count is above 0 has weak_count 1.
C20_WeakCountIsOneWhileOwned ==
  \A c \in BlockIds :
    (Allocated(c) /\ blocks[c].use_count > 0) => blocks[c].weak_count = 1

\* ------------------------------------------- properties of the threads
AllIdle == \A t \in Threads : pc[t] = "idle"

\* C3: in every interleaving the destruction routine of a block runs at most
\* once, only on the one thread whose fetch_sub returned 1, and it has run
\* exactly once when every thread has released all its handles.
C3_DestroyedOnceOnLastDecrementer ==
  \A c \in BlockIds :
    /\ Len(mtlog[c].zero) <= 1
    /\ blocks[c].destroys = Len(mtlog[c].ran)
    /\ mtlog[c].ran = <<>> \/ mtlog[c].ran = mtlog[c].zero
    /\ \A t \in Threads :
         pc[t] \in {"destroy", "weak_dec", "delete"} =>
           /\ reg[t].old = 1
           /\ mtlog[handles[<<t, reg[t].h>>].ctrl_].zero = <<t>>
    /\ (Allocated(c) /\ AllIdle /\ Refs(handles, c) = {}) =>
         /\ blocks[c].destroys = 1
         /\ objects[1].deleted_default = 1

\* Every handle is gone; thread 1, which adopted the object, has used it and
\* released it, and it was thread 2 whose decrement ran the routine.
C3_Witness ==
  /\ AllIdle
  /\ \A i \in ThreadHandles : ~handles[i].live
  /\ mtlog[1].ran = <<2>>
  /\ blocks[1].destroys = 1
  /\ clock[1] = 1

\* C4: when a thread is about to run the destruction routine, every access
\* another thread has made to the object happens before it.
C4_DestroyHappensAfterUses ==
  \A t \in Threads :
    pc[t] = "destroy" =>
      \A u \in Threads \ {t} : view[t][u] >= clock[u]

\* C18: for every allocated control block, the destruction routine has not
\* run exactly when the strong count is above 0.
C18_AliveIffCounted ==
  \A c \in BlockIds :
    Allocated(c) => (blocks[c].destroys = 0 <=> blocks[c].use_count > 0)

\* The thread that is between its fetch_sub and its call of destroy(), for
\* block c.
Destroying(c) ==
  {t \in Threads : pc[t] = "destroy" /\ handles[<<t, reg[t].h>>].ctrl_ = c}

\* What holds in place of C18: the strong count is never negative; while it
\* is above 0 the routine has not run; when it is 0 the routine has run once,
\* or exactly one thread, whose fetch_sub returned 1, is about to run it.
C18_AliveWhileCounted ==
  \A c \in BlockIds :
    Allocated(c) =>
      /\ blocks[c].use_count >= 0
      /\ blocks[c].use_count > 0 =>
           blocks[c].destroys = 0 /\ Destroying(c) = {}
      /\ blocks[c].use_count = 0 =>
           \/ blocks[c].destroys = 1 /\ Destroying(c) = {}
           \/ /\ blocks[c].destroys = 0
              /\ Cardinality(Destroying(c)) = 1
              /\ \A t \in Destroying(c) : reg[t].old = 1

\* A thread has taken the count to 0 and has not yet called destroy(), while
\* another thread is still running.
C18_Witness ==
  \E t \in Threads :
    /\ pc[t] = "destroy"
    /\ blocks[handles[<<t, reg[t].h>>].ctrl_].use_count = 0
    /\ blocks[handles[<<t, reg[t].h>>].ctrl_].destroys = 0
    /\ objects[1].st = "owned"
    /\ clock[t] = 1

====
